---------------------------- MODULE Spec2Model ----------------------------
(***************************************************************************)
(* Model of the page script of MukkamTravels (src/script.js and the older  *)
(* variant src/unnamed/part_000): language switcher, theme switcher,       *)
(* scroll revealer, accordion controller and nav toggle, all running       *)
(* against one localStorage shared by the pages of the site.               *)
(*                                                                         *)
(* A page is a record holding the part of its DOM the script reads or      *)
(* writes.  Every handler of the script is an operator from a context      *)
(* [dom, ls] (the page's DOM and localStorage) to the context it leaves;   *)
(* the actions apply these operators to the state.                         *)
(***************************************************************************)
EXTENDS Integers, Sequences, FiniteSets, TLC

VARIABLES
    variant,      \* which of the two script files the site ships
    prefersDark,  \* matchMedia('(prefers-color-scheme: dark)').matches
    store,        \* localStorage: the values under site-lang and site-theme
    tabs,         \* the pages open in the browser
    page,         \* page[p]: the DOM of page p
    last          \* the event handled last: [op, page, arg], for the properties

vars == <<variant, prefersDark, store, tabs, page, last>>

-----------------------------------------------------------------------------
(* Values *)

\* getItem / getAttribute answer null for a missing key or attribute.
NULL == "<null>"

Variants == {"script.js", "part_000"}

LS_LANG == "site-lang"
LS_THEME == "site-theme"

\* What localStorage may hold under a key before the first load: nothing,
\* the empty string, a supported value, or any other string.
StoredLangs == {NULL, "", "en", "ml", "fr"}
StoredThemes == {NULL, "", "dark", "light", "blue"}

MOON_SVG == "<svg moon>"
SUN_SVG == "<svg sun>"
MOON_TEXT == "moon-emoji"
SUN_TEXT == "sun-emoji"

\* style.maxHeight: <<>> when no explicit value is set, <<n>> for n px.
NoMaxHeight == <<>>
Px(n) == <<n>>

\* new Date().getFullYear()
CurrentYear == 2026

\* JavaScript truthiness of a string-or-null value: a || b
Truthy(v) == v # NULL /\ v # ""
OrElse(v, d) == IF Truthy(v) THEN v ELSE d

-----------------------------------------------------------------------------
(* The markup of the two pages of the site: page 1 is the services page,   *)
(* page 2 the home page.                                                   *)

Pages == {1, 2}

PageKind(p) == IF p = 1 THEN "services" ELSE "home"

\* Elements carrying data-en.
Translatable(kind) ==
    IF kind = "services" THEN {"title", "tours-desc", "cabs-note", "faq-ans"}
    ELSE {"hero", "cta"}

DataEn(e) ==
    CASE e = "title"      -> "Services"
      [] e = "tours-desc" -> "Day tours"
      [] e = "cabs-note"  -> "Cabs"
      [] e = "faq-ans"    -> "Yes"
      [] e = "hero"       -> "Welcome"
      [] e = "cta"        -> "Book now"

\* data-ml is optional; it may also be present and empty.
DataMl(e) ==
    CASE e = "title"      -> "Sevanangal"
      [] e = "tours-desc" -> "Oru divasathe yaathrakal"
      [] e = "cabs-note"  -> ""
      [] e = "faq-ans"    -> NULL
      [] e = "hero"       -> "Swagatham"
      [] e = "cta"        -> NULL

\* The text the markup ships in the element.
MarkupText(e) ==
    CASE e = "faq-ans" -> "Loading"
      [] e = "hero"    -> "Swagatham"
      [] OTHER         -> DataEn(e)

LangToggles(kind) ==
    IF kind = "services" THEN {"lang-toggle", "lang-toggle-2"} ELSE {"lang-toggle"}

ThemeToggles(kind) ==
    IF kind = "services" THEN {"theme-toggle", "theme-toggle-2"} ELSE {"theme-toggle"}

YearElems(kind) == IF kind = "services" THEN {"year", "year-2"} ELSE {"year"}

FadeIns(kind) == IF kind = "services" THEN {"card1", "card2"} ELSE {"banner"}

\* Elements with class accordion.  On the services page the group "faq"
\* lies inside the panel of item "cabs" of #services-accordion.
Groups(kind) ==
    IF kind = "services" THEN {"services-accordion", "faq", "extras"} ELSE {}

\* container.querySelectorAll('.accordion-item'): every descendant item.
ItemsIn(g) ==
    CASE g = "services-accordion" -> {"tours", "cabs", "stub", "q1"}
      [] g = "faq"                -> {"q1"}
      [] g = "extras"             -> {"x1"}

Items(kind) == IF kind = "services" THEN {"tours", "cabs", "stub", "q1", "x1"} ELSE {}

HasHeader(i) == TRUE
HasPanel(i) == i # "stub"

\* Content of an item's panel: translatable elements and nested items.
ElemsIn(i) ==
    CASE i = "tours" -> {"tours-desc"}
      [] i = "cabs"  -> {"cabs-note"}
      [] i = "q1"    -> {"faq-ans"}
      [] OTHER       -> {}

NestedIn(i) == IF i = "cabs" THEN {"q1"} ELSE {}

-----------------------------------------------------------------------------
(* Layout: the natural height of a panel's content *)

CharsPerLine == 12
LineHeight == 20
HeaderHeight == 30

Lines(t) == (Len(t) + CharsPerLine - 1) \div CharsPerLine

Min(a, b) == IF a < b THEN a ELSE b

RECURSIVE SumOver(_, _)
SumOver(S, f) ==
    IF S = {} THEN 0
    ELSE LET x == CHOOSE y \in S : TRUE IN f[x] + SumOver(S \ {x}, f)

\* Natural height of a panel holding only text.
TextHeight(dom, i) ==
    SumOver(ElemsIn(i), [e \in ElemsIn(i) |-> LineHeight * Lines(dom.text[e])])

\* Height a nested item takes inside its parent's panel: its header plus its
\* panel, which is collapsed unless an explicit max-height is set.
RenderedHeight(dom, j) ==
    HeaderHeight +
    (IF dom.maxHeight[j] = NoMaxHeight THEN 0
     ELSE Min(dom.maxHeight[j][1], TextHeight(dom, j)))

\* panel.scrollHeight
ScrollHeight(dom, i) ==
    TextHeight(dom, i)
    + SumOver(NestedIn(i), [j \in NestedIn(i) |-> RenderedHeight(dom, j)])

-----------------------------------------------------------------------------
(* The DOM as the markup ships it, before the script has run *)

Fresh(kind) ==
    [ kind         |-> kind,
      loaded       |-> FALSE,
      yearText     |-> [y \in YearElems(kind) |-> ""],
      text         |-> [e \in Translatable(kind) |-> MarkupText(e)],
      langLabel    |-> [b \in LangToggles(kind) |-> "EN"],
      dataTheme    |-> NULL,
      themeBtn     |-> [b \in ThemeToggles(kind) |-> MOON_TEXT],
      handlers     |-> [i \in Items(kind) |-> 0],
      open         |-> [i \in Items(kind) |-> FALSE],
      ariaExpanded |-> [i \in Items(kind) |-> "false"],
      maxHeight    |-> [i \in Items(kind) |-> NoMaxHeight],
      navOpen      |-> FALSE,
      menuAria     |-> "false",
      visible      |-> [f \in FadeIns(kind) |-> FALSE] ]

Ctx(dom, ls) == [dom |-> dom, ls |-> ls]

-----------------------------------------------------------------------------
(* The script's functions *)

setYear(c) ==
    [c EXCEPT !.dom.yearText = [y \in DOMAIN @ |-> ToString(CurrentYear)]]

\* LangText with the test "ml !== null" written as a truthiness test.
LangTextTruthy(e, lang) ==
    IF lang = "ml" /\ Truthy(DataMl(e)) THEN DataMl(e) ELSE DataEn(e)

\* The text applyLanguage(lang) writes into element e.
LangText(e, lang) ==
    IF lang = "ml" /\ DataMl(e) # NULL THEN DataMl(e) ELSE DataEn(e)

LangLabel(lang) == IF lang = "ml" THEN "ML" ELSE "EN"

\* applyLanguage without its else branch: English is never written back.
applyLanguageNoRestore(c, lang) ==
    [c EXCEPT !.dom.text = [e \in DOMAIN @ |->
                  IF lang = "ml" /\ DataMl(e) # NULL THEN DataMl(e) ELSE @[e]],
              !.dom.langLabel = [b \in DOMAIN @ |-> LangLabel(lang)],
              !.ls[LS_LANG] = lang]

\* applyLanguage persisting under the theme key.
applyLanguageWrongKey(c, lang) ==
    [c EXCEPT !.dom.text = [e \in DOMAIN @ |-> LangText(e, lang)],
              !.dom.langLabel = [b \in DOMAIN @ |-> LangLabel(lang)],
              !.ls[LS_THEME] = lang]

applyLanguage(c, lang) ==
    [c EXCEPT !.dom.text = [e \in DOMAIN @ |-> LangText(e, lang)],
              !.dom.langLabel = [b \in DOMAIN @ |-> LangLabel(lang)],
              !.ls[LS_LANG] = lang]

ThemeAttr(theme) == IF theme = "dark" THEN "dark" ELSE "light"

\* ThemeIcon showing the active mode instead of the next action.
ThemeIconCurrent(v, theme) ==
    IF v = "script.js" THEN (IF theme = "dark" THEN MOON_SVG ELSE SUN_SVG)
    ELSE (IF theme = "dark" THEN MOON_TEXT ELSE SUN_TEXT)

ThemeIcon(v, theme) ==
    IF v = "script.js" THEN (IF theme = "dark" THEN SUN_SVG ELSE MOON_SVG)
    ELSE (IF theme = "dark" THEN SUN_TEXT ELSE MOON_TEXT)

\* applyTheme without the setItem call.
applyThemeNoPersist(c, v, theme) ==
    [c EXCEPT !.dom.dataTheme = ThemeAttr(theme),
              !.dom.themeBtn = [b \in DOMAIN @ |-> ThemeIcon(v, theme)]]

\* applyTheme choosing the icon from the attribute it is about to replace.
applyThemeStaleIcon(c, v, theme) ==
    [c EXCEPT !.dom.dataTheme = ThemeAttr(theme),
              !.dom.themeBtn = [b \in DOMAIN @ |->
                  ThemeIcon(v, IF c.dom.dataTheme = "dark" THEN "light" ELSE "dark")],
              !.ls[LS_THEME] = theme]

applyTheme(c, v, theme) ==
    [c EXCEPT !.dom.dataTheme = ThemeAttr(theme),
              !.dom.themeBtn = [b \in DOMAIN @ |-> ThemeIcon(v, theme)],
              !.ls[LS_THEME] = theme]

\* Number of click handlers setupAccordion attaches to the header of item i.
HandlerCount(v, kind, i) ==
    IF ~(HasHeader(i) /\ HasPanel(i)) THEN 0
    ELSE IF v = "script.js"
         THEN Cardinality({g \in Groups(kind) : i \in ItemsIn(g)})
         ELSE IF "services-accordion" \in Groups(kind)
                 /\ i \in ItemsIn("services-accordion")
              THEN 1 ELSE 0

setupAccordion(c, v) ==
    [c EXCEPT !.dom.handlers = [i \in DOMAIN @ |-> HandlerCount(v, c.dom.kind, i)]]

\* DefaultTheme with the two files' policies swapped.
DefaultThemeSwapped(v, dark) ==
    IF v = "part_000" THEN "dark" ELSE (IF dark THEN "dark" ELSE "light")

\* The theme the load handler applies when nothing usable is stored.
DefaultTheme(v, dark) ==
    IF v = "script.js" THEN "dark" ELSE (IF dark THEN "dark" ELSE "light")

\* A load handler that renders the resolved preferences without storing them.
DOMContentLoadedKeepStore(c, v, dark) ==
    LET c1 == setupAccordion(setYear([c EXCEPT !.dom.loaded = TRUE]), v)
        c2 == applyLanguage(c1, OrElse(c1.ls[LS_LANG], "en"))
        c3 == applyTheme(c2, v, OrElse(c.ls[LS_THEME], DefaultTheme(v, dark)))
    IN  [c3 EXCEPT !.ls = c.ls]

\* The DOMContentLoaded handler.  setupObserver and setupNavToggle only
\* register callbacks; loaded says they are registered.
DOMContentLoaded(c, v, dark) ==
    LET c1 == setupAccordion(setYear([c EXCEPT !.dom.loaded = TRUE]), v)
        savedLang == OrElse(c1.ls[LS_LANG], "en")
        c2 == applyLanguage(c1, savedLang)
        savedTheme == OrElse(c2.ls[LS_THEME], DefaultTheme(v, dark))
    IN  applyTheme(c2, v, savedTheme)


-----------------------------------------------------------------------------
(* The event handlers the script registers *)

\* LangClick flipping the language the page shows instead of the stored one.
LangClickFromLabel(c) ==
    applyLanguage(c, IF \E b \in DOMAIN c.dom.langLabel : c.dom.langLabel[b] = "ML"
                     THEN "en" ELSE "ml")

\* Click on #lang-toggle or #lang-toggle-2.
LangClick(c) ==
    applyLanguage(c, IF c.ls[LS_LANG] = "ml" THEN "en" ELSE "ml")

\* ThemeClick flipping the stored preference instead of the attribute.
ThemeClickFromStore(c, v) ==
    applyTheme(c, v, IF c.ls[LS_THEME] = "dark" THEN "light" ELSE "dark")

\* Click on #theme-toggle or #theme-toggle-2.
ThemeClick(c, v) ==
    applyTheme(c, v, IF c.dom.dataTheme = "dark" THEN "light" ELSE "dark")

\* AccordionHandler that collapses every other item when it opens one.
AccordionHandlerExclusive(c, i) ==
    LET isOpen == ~c.dom.open[i]
        c1 == [c EXCEPT !.dom.open = [j \in DOMAIN @ |-> j = i /\ isOpen],
                        !.dom.ariaExpanded = [j \in DOMAIN @ |->
                            IF j = i /\ isOpen THEN "true" ELSE "false"]]
    IN  [c1 EXCEPT !.dom.maxHeight = [j \in DOMAIN @ |->
            IF j = i /\ isOpen THEN Px(ScrollHeight(c1.dom, i)) ELSE NoMaxHeight]]

\* AccordionHandler that leaves the explicit height in place on closing.
AccordionHandlerKeepHeight(c, i) ==
    LET isOpen == ~c.dom.open[i]
        c1 == [c EXCEPT !.dom.open[i] = isOpen,
                        !.dom.ariaExpanded[i] = IF isOpen THEN "true" ELSE "false"]
    IN  [c1 EXCEPT !.dom.maxHeight[i] =
            IF isOpen THEN Px(ScrollHeight(c1.dom, i)) ELSE @]

\* One run of the click handler of item i's header.
AccordionHandler(c, i) ==
    LET isOpen == ~c.dom.open[i]
        c1 == [c EXCEPT !.dom.open[i] = isOpen,
                        !.dom.ariaExpanded[i] = IF isOpen THEN "true" ELSE "false"]
    IN  [c1 EXCEPT !.dom.maxHeight[i] =
            IF isOpen THEN Px(ScrollHeight(c1.dom, i)) ELSE NoMaxHeight]

\* A click on the header of item i runs every handler attached to it.
RECURSIVE RunHandlers(_, _, _)
RunHandlers(c, i, n) ==
    IF n = 0 THEN c ELSE RunHandlers(AccordionHandler(c, i), i, n - 1)

AccordionClick(c, i) == RunHandlers(c, i, c.dom.handlers[i])

\* Click on #menu-toggle.
MenuClick(c) ==
    LET open == ~c.dom.navOpen
    IN  [c EXCEPT !.dom.navOpen = open,
                  !.dom.menuAria = IF open THEN "true" ELSE "false"]

\* NavLinkClick toggling the open class instead of removing it.
NavLinkClickToggle(c) == [c EXCEPT !.dom.navOpen = ~@]

\* Click on a link inside #nav-links.
NavLinkClick(c) == [c EXCEPT !.dom.navOpen = FALSE]

\* Intersection that also removes the class when a target leaves the viewport.
IntersectionToggle(c, entries) ==
    [c EXCEPT !.dom.visible =
        [f \in DOMAIN @ |->
            /\ @[f] \/ [target |-> f, isIntersecting |-> TRUE] \in entries
            /\ [target |-> f, isIntersecting |-> FALSE] \notin entries]]

\* The IntersectionObserver callback; entries is a set of
\* [target, isIntersecting] records.
Intersection(c, entries) ==
    [c EXCEPT !.dom.visible =
        [f \in DOMAIN @ |->
            @[f] \/ [target |-> f, isIntersecting |-> TRUE] \in entries]]

-----------------------------------------------------------------------------
(* The state machine *)

\* Largest batch of entries one IntersectionObserver callback delivers.
MaxBatch == 2

Entries(kind) ==
    {es \in SUBSET [target : FadeIns(kind), isIntersecting : BOOLEAN] :
        Cardinality(es) \in 1..MaxBatch}

Event(op, p, arg) == [op |-> op, page |-> p, arg |-> arg]

InitCommon ==
    /\ variant \in Variants
    /\ prefersDark \in BOOLEAN
    /\ store \in [{LS_LANG, LS_THEME} -> StoredLangs \cup StoredThemes]
    /\ store[LS_LANG] \in StoredLangs
    /\ store[LS_THEME] \in StoredThemes
    /\ page = [p \in Pages |-> Fresh(PageKind(p))]
    /\ last = Event("none", 0, <<>>)

\* One page of the site open, either of the two.
Init == InitCommon /\ tabs \in {{1}, {2}}

\* The context page p's handlers run in.
Now(p) == Ctx(page[p], store)

\* The state after page p's handler left context c.
Becomes(p, c, ev) ==
    /\ page' = [page EXCEPT ![p] = c.dom]
    /\ store' = c.ls
    /\ last' = ev
    /\ UNCHANGED <<variant, prefersDark, tabs>>

\* What the load handler of page p leaves, run now on the fresh markup.
Reloaded(p) ==
    DOMContentLoaded(Ctx(Fresh(PageKind(p)), store), variant, prefersDark)

\* Page p is loaded, or loaded again.  The event records whether the page
\* had been loaded before, and what localStorage held when the handler started.
Load(p) ==
    Becomes(p, Reloaded(p),
            Event(IF page[p].loaded THEN "reload" ELSE "load", p,
                  <<store[LS_LANG], store[LS_THEME]>>))

\* The click events record the button clicked and what localStorage held
\* under the handler's key when it started; a language click also the label
\* the button showed.
ClickLang(p) ==
    /\ page[p].loaded
    /\ \E b \in LangToggles(page[p].kind) :
          Becomes(p, LangClick(Now(p)), Event("lang", p, <<b, store[LS_LANG], page[p].langLabel[b]>>))

ClickTheme(p) ==
    /\ page[p].loaded
    /\ \E b \in ThemeToggles(page[p].kind) :
          Becomes(p, ThemeClick(Now(p), variant), Event("theme", p, <<b, store[LS_THEME]>>))

ClickAccordion(p) ==
    /\ page[p].loaded
    /\ \E i \in Items(page[p].kind) :
          /\ HasHeader(i)
          /\ Becomes(p, AccordionClick(Now(p), i), Event("accordion", p, <<i>>))

ClickMenu(p) ==
    /\ page[p].loaded
    /\ Becomes(p, MenuClick(Now(p)), Event("menu", p, <<>>))

ClickNavLink(p) ==
    /\ page[p].loaded
    /\ Becomes(p, NavLinkClick(Now(p)), Event("navlink", p, <<>>))

Intersect(p) ==
    /\ page[p].loaded
    /\ \E es \in Entries(page[p].kind) :
          Becomes(p, Intersection(Now(p), es), Event("intersect", p, <<es>>))

\* The user or the system switches the ambient colour scheme.
AmbientChange ==
    /\ prefersDark' = ~prefersDark
    /\ last' = Event("ambient", 0, <<>>)
    /\ UNCHANGED <<variant, store, tabs, page>>

Next ==
    \/ \E p \in tabs : Load(p)
    \/ \E p \in tabs : ClickLang(p)
    \/ \E p \in tabs : ClickTheme(p)
    \/ \E p \in tabs : ClickAccordion(p)
    \/ \E p \in tabs : ClickMenu(p)
    \/ \E p \in tabs : ClickNavLink(p)
    \/ \E p \in tabs : Intersect(p)
    \/ AmbientChange

Spec == Init /\ [][Next]_vars


\* Both pages of the site open on the one localStorage.  Only the handlers
\* that read or write localStorage take part: the accordion, nav and reveal
\* handlers touch nothing but their own page's elements.
InitShared == InitCommon /\ tabs = Pages

NextShared ==
    \/ \E p \in tabs : Load(p)
    \/ \E p \in tabs : ClickLang(p)
    \/ \E p \in tabs : ClickTheme(p)
    \/ AmbientChange

SpecShared == InitShared /\ [][NextShared]_vars

-----------------------------------------------------------------------------
(* Properties *)

Loaded == {p \in tabs : page[p].loaded}

\* C1: applyLanguage('ml') leaves every element carrying data-en showing its
\* data-ml value if the attribute is present and its data-en value otherwise;
\* applyLanguage('en') leaves it showing its data-en value; whatever the
\* element showed before.
C1_ApplyLanguageRenders ==
    \A p \in tabs : \A e \in Translatable(page[p].kind) :
        /\ applyLanguage(Now(p), "ml").dom.text[e] =
               (IF DataMl(e) = NULL THEN DataEn(e) ELSE DataMl(e))
        /\ applyLanguage(Now(p), "en").dom.text[e] = DataEn(e)

\* A language click has rendered the services page in Malayalam: the element
\* with an empty data-ml shows it, the one without data-ml shows English.
C1_Witness ==
    /\ last.op = "lang" /\ last.page = 1
    /\ store[LS_LANG] = "ml"
    /\ page[1].text["title"] = "Sevanangal"
    /\ page[1].text["cabs-note"] = ""
    /\ page[1].text["faq-ans"] = "Yes"

\* C2: once a page is loaded, localStorage holds 'en' or 'ml' under the
\* language key, whatever it held before the load.
C2_StoredLangSupported ==
    \A p \in Loaded : store[LS_LANG] \in {"en", "ml"}

\* C3: once a page is loaded, localStorage holds 'dark' or 'light' under the
\* theme key, whatever it held before the load.
C3_StoredThemeSupported ==
    \A p \in Loaded : store[LS_THEME] \in {"dark", "light"}


\* C4: reloading a loaded page against the store as it is recovers the
\* rendering: every translatable element shows the same text and data-theme
\* has the same value as just before the reload.
C4_ReloadRecovers ==
    \A p \in Loaded :
        /\ Reloaded(p).dom.text = page[p].text
        /\ Reloaded(p).dom.dataTheme = page[p].dataTheme

\* The services page, loaded before, was loaded again, found 'ml' and
\* 'light' in the store and rendered them.
C4_Witness ==
    /\ last = Event("reload", 1, <<"ml", "light">>)
    /\ page[1].text["title"] = "Sevanangal"
    /\ page[1].dataTheme = "light"

\* What the claims compare of a rendered language.
LangView(c) ==
    [text |-> c.dom.text, label |-> c.dom.langLabel, stored |-> c.ls[LS_LANG]]

\* C5: from a loaded page whose language is the default 'en', two clicks on
\* a language toggle lead back to 'en': the stored value, every translatable
\* element and every toggle label are as before the clicks, while the first
\* click alone changes them.  And applying 'ml', 'en', 'ml' renders exactly
\* what applying 'ml' once renders.
C5_LanguageToggleInvolutive ==
    \A p \in Loaded :
        /\ store[LS_LANG] = "en" =>
              /\ LangClick(LangClick(Now(p))) = Now(p)
              /\ LangView(LangClick(Now(p))) # LangView(Now(p))
              /\ LangClick(LangClick(Now(p))).ls[LS_LANG] = "en"
        /\ applyLanguage(applyLanguage(applyLanguage(Now(p), "ml"), "en"), "ml")
               = applyLanguage(Now(p), "ml")

\* A language click has brought the services page back to English.
C5_Witness ==
    /\ last.op = "lang" /\ last.page = 1
    /\ store[LS_LANG] = "en"
    /\ page[1].text["title"] = "Services"
    /\ \A b \in LangToggles("services") : page[1].langLabel[b] = "EN"

\* The theme each file documents as its default.
DocumentedDefaultTheme ==
    IF variant = "script.js" THEN "dark"
    ELSE IF prefersDark THEN "dark" ELSE "light"

\* C6: a load that finds no stored preference resolves the language to 'en'
\* and the theme to 'dark' (script.js) or to the ambient colour scheme
\* (part_000); data-theme and all rendered text show these defaults.
C6_DefaultsOnEmptyStore ==
    \A p \in tabs :
        last = Event("load", p, <<NULL, NULL>>) =>
            /\ store[LS_LANG] = "en"
            /\ \A e \in Translatable(page[p].kind) : page[p].text[e] = DataEn(e)
            /\ \A b \in LangToggles(page[p].kind) : page[p].langLabel[b] = "EN"
            /\ page[p].dataTheme = DocumentedDefaultTheme
            /\ store[LS_THEME] = DocumentedDefaultTheme

\* part_000 loaded with an empty store under a light ambient scheme.
C6_Witness ==
    /\ last = Event("load", 1, <<NULL, NULL>>)
    /\ variant = "part_000" /\ ~prefersDark
    /\ page[1].dataTheme = "light"
    /\ page[1].text["faq-ans"] = "Yes"

\* What the claims compare of an applied theme.
ThemeView(c) ==
    [attr |-> c.dom.dataTheme, buttons |-> c.dom.themeBtn, stored |-> c.ls[LS_THEME]]

\* C7: applyTheme(m) twice leaves data-theme, every theme toggle's content
\* and the stored theme as applyTheme(m) once leaves them, for m dark, light.
C7_ApplyThemeIdempotent ==
    \A p \in tabs : \A m \in {"dark", "light"} :
        ThemeView(applyTheme(applyTheme(Now(p), variant, m), variant, m))
            = ThemeView(applyTheme(Now(p), variant, m))

\* A theme click has applied 'light' on the services page.
C7_Witness ==
    /\ last.op = "theme" /\ last.page = 1
    /\ page[1].dataTheme = "light"
    /\ store[LS_THEME] = "light"

SwitchToLight(content) == content \in {SUN_SVG, SUN_TEXT}
SwitchToDark(content) == content \in {MOON_SVG, MOON_TEXT}

\* C8: on a loaded page every theme toggle shows the sun exactly when
\* data-theme is 'dark' and the moon exactly when it is 'light'.
C8_ThemeAffordance ==
    \A p \in Loaded : \A b \in ThemeToggles(page[p].kind) :
        /\ SwitchToLight(page[p].themeBtn[b]) <=> page[p].dataTheme = "dark"
        /\ SwitchToDark(page[p].themeBtn[b]) <=> page[p].dataTheme = "light"

\* A language click on a page whose theme had been switched to light from
\* script.js's dark default.
C8_Witness ==
    /\ last.op = "lang" /\ last.page = 1
    /\ variant = "script.js"
    /\ page[1].dataTheme = "light"
    /\ store[LS_LANG] = "ml"
    /\ \A b \in ThemeToggles("services") : page[1].themeBtn[b] = MOON_SVG


\* What the script keeps of accordion item i.
ItemView(dom, i) ==
    [open |-> dom.open[i], aria |-> dom.ariaExpanded[i], height |-> dom.maxHeight[i]]

\* C9: a click on the header of item A changes nothing but A's open marker,
\* A's aria-expanded and A's max-height: every other item of the page, in
\* A's group or another, keeps its marker, aria-expanded and max-height, and
\* the rest of the page and the store are as before.
C9_AccordionItemsIndependent ==
    [][\A p \in tabs : \A a \in Items(page[p].kind) :
          last' = Event("accordion", p, <<a>>) =>
              /\ \A b \in Items(page[p].kind) \ {a} :
                    ItemView(page'[p], b) = ItemView(page[p], b)
              /\ page'[p] = [page[p] EXCEPT !.open[a] = page'[p].open[a],
                                            !.ariaExpanded[a] = page'[p].ariaExpanded[a],
                                            !.maxHeight[a] = page'[p].maxHeight[a]]
              /\ store' = store]_vars

\* Item "tours" was opened by the last click while "cabs" and "x1" or "q1"
\* were open, and they still are.
C9_Witness ==
    /\ last = Event("accordion", 1, <<"tours">>)
    /\ page[1].open["tours"] /\ page[1].open["cabs"]
    /\ page[1].open["x1"] \/ page[1].open["q1"]
    /\ page[1].maxHeight["cabs"] # NoMaxHeight

\* C10: the click that opens an item sets its panel's max-height to the
\* panel's scroll height at that moment, the click that closes it clears the
\* max-height; so a panel has an explicit max-height exactly when its item
\* carries the open marker.
C10_AccordionHeight ==
    \A p \in tabs : \A i \in Items(page[p].kind) :
        /\ page[p].maxHeight[i] # NoMaxHeight <=> page[p].open[i]
        /\ last = Event("accordion", p, <<i>>) =>
              page[p].maxHeight[i] =
                  IF page[p].open[i] THEN Px(ScrollHeight(page[p], i)) ELSE NoMaxHeight

\* "tours" was opened by the last click while the page shows Malayalam and
\* "cabs" is open: its two lines of text give the panel two line heights.
C10_Witness ==
    /\ last = Event("accordion", 1, <<"tours">>)
    /\ store[LS_LANG] = "ml"
    /\ page[1].open["tours"]
    /\ page[1].maxHeight["tours"] = Px(2 * LineHeight)
    /\ page[1].open["cabs"] /\ ~page[1].open["x1"]


\* A step that loads page p again: the document, and every element in it,
\* is replaced.
ReloadStep(p) == last'.op = "reload" /\ last'.page = p

\* C11: a .fade-in target that has the 'visible' class keeps it for as long
\* as its document lives, whatever intersection notifications and user
\* events follow.
C11_RevealMonotonic ==
    [][\A p \in tabs : \A f \in FadeIns(page[p].kind) :
          page[p].visible[f] /\ ~ReloadStep(p) => page'[p].visible[f]]_vars

\* "card1", visible before, was last reported as not intersecting, and is
\* still visible.
C11_Witness ==
    /\ last.op = "intersect" /\ last.page = 1
    /\ [target |-> "card1", isIntersecting |-> FALSE] \in last.arg[1]
    /\ [target |-> "card1", isIntersecting |-> TRUE] \notin last.arg[1]
    /\ page[1].visible["card1"]

\* C12: a click on a link inside #nav-links leaves the container without
\* the 'open' class, whether it was open or closed before.
C12_NavLinkCloses ==
    \A p \in tabs : last.op = "navlink" /\ last.page = p => ~page[p].navOpen

\* A nav link was clicked while the menu was open (the menu toggle's
\* aria-expanded still says so), and the container is closed.
C12_Witness ==
    /\ last.op = "navlink" /\ last.page = 1
    /\ page[1].menuAria = "true"
    /\ ~page[1].navOpen

\* C13: the menu toggle's aria-expanded is 'true' exactly when #nav-links
\* carries the 'open' class.
C13_AriaMirrorsNav ==
    \A p \in tabs : page[p].menuAria = "true" <=> page[p].navOpen


Flipped(theme) == IF theme = "dark" THEN "light" ELSE "dark"

\* C14: a theme-toggle click sets data-theme to 'light' if it was 'dark' and
\* to 'dark' otherwise, and stores the new attribute value, whatever the
\* store held at the click: an invalid value, or one written by another page.
C14_ThemeClickFlipsAttribute ==
    [][\A p \in tabs :
          last'.op = "theme" /\ last'.page = p =>
              /\ page'[p].dataTheme = Flipped(page[p].dataTheme)
              /\ store'[LS_THEME] = page'[p].dataTheme]_vars

\* The services page was switched to light by a click that found 'light'
\* already stored, written by the home page, which shows light.
C14_Witness ==
    /\ last.op = "theme" /\ last.page = 1
    /\ last.arg[2] = "light"
    /\ page[1].dataTheme = "light"
    /\ page[2].loaded /\ page[2].dataTheme = "light"
    /\ store[LS_THEME] = "light"


\* The items the file's setupAccordion is to bind: in script.js every item,
\* with a header and a panel, of every .accordion group; in part_000 those
\* of #services-accordion.
Bound(kind) ==
    {i \in Items(kind) :
        /\ HasHeader(i) /\ HasPanel(i)
        /\ \E g \in Groups(kind) :
              /\ i \in ItemsIn(g)
              /\ variant = "part_000" => g = "services-accordion"}

\* C15: every click on an item's header flips the item's open marker
\* exactly once, and leaves aria-expanded 'true' exactly when the item is
\* open; in script.js also for the items of a nested group.
C15_AccordionTwoState ==
    [][\A p \in tabs : \A i \in Bound(page[p].kind) :
          last' = Event("accordion", p, <<i>>) =>
              /\ page'[p].open[i] = ~page[p].open[i]
              /\ page'[p].ariaExpanded[i] = "true" <=> page'[p].open[i]]_vars


\* Context c2 differs from c1 at most in the translatable text, the
\* language-toggle labels and the stored language.
OnlyLanguageChanged(c1, c2) ==
    /\ c2.dom = [c1.dom EXCEPT !.text = c2.dom.text, !.langLabel = c2.dom.langLabel]
    /\ c2.ls[LS_THEME] = c1.ls[LS_THEME]

\* Context c2 differs from c1 at most in data-theme, the theme toggles'
\* content and the stored theme.
OnlyThemeChanged(c1, c2) ==
    /\ c2.dom = [c1.dom EXCEPT !.dataTheme = c2.dom.dataTheme, !.themeBtn = c2.dom.themeBtn]
    /\ c2.ls[LS_LANG] = c1.ls[LS_LANG]

\* C16: a language-toggle click, which runs applyLanguage, changes nothing
\* but the text of translatable elements, the language labels and the stored
\* language: data-theme, the stored theme, the theme toggles, the accordion
\* items, the nav marker and the reveal markers stay.  A theme-toggle click,
\* which runs applyTheme, changes nothing but data-theme, the theme toggles
\* and the stored theme.
C16_NoInterference ==
    [][\A p \in tabs :
          /\ last'.op = "lang" /\ last'.page = p =>
                OnlyLanguageChanged(Now(p), Ctx(page'[p], store'))
          /\ last'.op = "theme" /\ last'.page = p =>
                OnlyThemeChanged(Now(p), Ctx(page'[p], store'))]_vars

\* A language click on the services page while the theme is light, items
\* "tours" and "cabs" are open, the menu is open and "card1" is revealed.
C16_Witness ==
    /\ last.op = "lang" /\ last.page = 1
    /\ store[LS_LANG] = "ml" /\ store[LS_THEME] = "light"
    /\ page[1].dataTheme = "light"
    /\ page[1].open["tours"] /\ page[1].open["cabs"]
    /\ page[1].navOpen
    /\ page[1].visible["card1"] /\ ~page[1].visible["card2"]


\* The language a page renders, as its toggle labels name it.
Shown(dom) ==
    IF \A b \in DOMAIN dom.langLabel : dom.langLabel[b] = "ML" THEN "ml" ELSE "en"

Other(lang) == IF lang = "ml" THEN "en" ELSE "ml"

\* The text of a page of this kind rendered in lang.
Rendering(kind, lang) ==
    [e \in Translatable(kind) |->
        IF lang = "ml" /\ DataMl(e) # NULL THEN DataMl(e) ELSE DataEn(e)]

LangStep(p) == last'.op = "lang" /\ last'.page = p

\* C17 as claimed: with two pages on one store, every language-toggle click
\* flips the language of the page it is clicked in (text and labels are in
\* the other language than just before), and the stored language is the one
\* the page now renders.
C17_ClickFlipsPageLanguage ==
    [][\A p \in tabs :
          LangStep(p) =>
              /\ Shown(page'[p]) = Other(Shown(page[p]))
              /\ page'[p].text = Rendering(page[p].kind, Other(Shown(page[p])))
              /\ store'[LS_LANG] = Shown(page'[p])]_vars

\* C17 as amended: every language-toggle click flips the stored language
\* ('en' if 'ml' was stored, 'ml' otherwise) and renders the clicked page,
\* text and labels, in the newly stored language; the page changes language
\* exactly when it showed the stored language before the click.
C17_ClickFlipsStoredLanguage ==
    [][\A p \in tabs :
          LangStep(p) =>
              /\ store'[LS_LANG] = Other(store[LS_LANG])
              /\ Shown(page'[p]) = store'[LS_LANG]
              /\ page'[p].text = Rendering(page[p].kind, store'[LS_LANG])
              /\ Shown(page'[p]) # Shown(page[p])
                    <=> Shown(page[p]) = Other(Other(store[LS_LANG]))]_vars

\* The services page showed English when its toggle was clicked, the home
\* page had stored 'ml': the click stored 'en' and the page still shows
\* English, while the home page shows Malayalam.
C17_Witness ==
    /\ last.op = "lang" /\ last.page = 1
    /\ last.arg[2] = "ml" /\ last.arg[3] = "EN"
    /\ Shown(page[1]) = "en" /\ store[LS_LANG] = "en"
    /\ page[2].loaded /\ Shown(page[2]) = "ml"


LoadStep(p) == last'.op \in {"load", "reload"} /\ last'.page = p

\* C18: every load leaves both keys in the store, and a load against an
\* empty store leaves 'en' and the default theme there, without any click.
\* So once a page has loaded, only a theme-toggle click changes the stored
\* theme or data-theme: a later load renders the theme of the first load,
\* also in part_000 after the ambient colour scheme has changed.
C18_LoadWritesBoth ==
    [][\A p \in tabs :
          /\ LoadStep(p) =>
                /\ store'[LS_LANG] # NULL /\ store'[LS_THEME] # NULL
                /\ store[LS_LANG] = NULL /\ store[LS_THEME] = NULL =>
                      /\ store'[LS_LANG] = "en"
                      /\ store'[LS_THEME] = DocumentedDefaultTheme
          /\ page[p].loaded /\ last'.op # "theme" =>
                /\ store'[LS_THEME] = store[LS_THEME]
                /\ page'[p].dataTheme = page[p].dataTheme]_vars

\* part_000: the services page was loaded again under a dark ambient scheme
\* and renders the stored 'light'.
C18_Witness ==
    /\ variant = "part_000" /\ prefersDark
    /\ last = Event("reload", 1, <<"en", "light">>)
    /\ page[1].dataTheme = "light"
    /\ store[LS_THEME] = "light"


\* C19: while an item is open, its panel's max-height is the panel's
\* current scroll height, also after a language click has replaced the text
\* inside the panel.
C19_OpenHeightCurrent ==
    \A p \in tabs : \A i \in Items(page[p].kind) :
        page[p].open[i] => page[p].maxHeight[i] = Px(ScrollHeight(page[p], i))

=============================================================================
